---- MODULE Spec2Model ----
(***************************************************************************)
(* Monte Carlo Tree Search engine of mcts_vanilla.py / mcts_modified.py.   *)
(* The two files share traverse_nodes, expand_leaf, backpropagate, ucb,    *)
(* get_best_action, is_win and think; they differ in rollout only.  The    *)
(* variable policy selects the file whose rollout is run.                  *)
(***************************************************************************)
EXTENDS Integers, Sequences, FiniteSets, TLC

(***************************************************************************)
(* Bounds of the model.                                                    *)
(***************************************************************************)
\* largest iteration budget think is run with (num_nodes ranges over
\* 0..MaxIterations; the source fixes it to 1000)
MaxIterations == 8

(***************************************************************************)
(* Game adapter (Board of p2_t3): one 3x3 board, two players, three in a   *)
(* line wins.  A state is the nine cells in row-major order plus the       *)
(* player to move; an action is <<R, C, r, c>> as in the full game, with   *)
(* <<r, c>> the cell inside the board.                                     *)
(***************************************************************************)
None == <<>>

NoNode == 0

Lines == { <<1, 2, 3>>, <<4, 5, 6>>, <<7, 8, 9>>,
           <<1, 4, 7>>, <<2, 5, 8>>, <<3, 6, 9>>,
           <<1, 5, 9>>, <<3, 5, 7>> }

CellOf(action) == 3 * action[3] + action[4] + 1

ActionOf(cell) == << 0, 0, (cell - 1) \div 3, (cell - 1) % 3 >>

Owner(s) ==
    IF \E l \in Lines : s.cells[l[1]] = 1 /\ s.cells[l[2]] = 1 /\ s.cells[l[3]] = 1
    THEN 1
    ELSE IF \E l \in Lines : s.cells[l[1]] = 2 /\ s.cells[l[2]] = 2 /\ s.cells[l[3]] = 2
         THEN 2
         ELSE 0

is_ended(s) == Owner(s) # 0 \/ \A i \in 1..9 : s.cells[i] # 0

RECURSIVE FreeFrom(_, _)
FreeFrom(s, i) ==
    IF i > 9 THEN << >>
    ELSE IF s.cells[i] = 0 THEN << ActionOf(i) >> \o FreeFrom(s, i + 1)
         ELSE FreeFrom(s, i + 1)

legal_actions(s) == IF is_ended(s) THEN << >> ELSE FreeFrom(s, 1)

current_player(s) == s.player

next_state(s, action) ==
    [ cells  |-> [ s.cells EXCEPT ![CellOf(action)] = s.player ],
      player |-> 3 - s.player ]

\* None while the game runs; otherwise player -> 1 / -1 (0, 0 on a draw)
points_values(s) ==
    IF ~ is_ended(s) THEN None
    ELSE IF Owner(s) = 1 THEN << 1, -1 >>
         ELSE IF Owner(s) = 2 THEN << -1, 1 >>
              ELSE << 0, 0 >>

\* None while the game runs; otherwise player -> 2 / 0 halves (1, 1 on a draw)
win_values(s) ==
    IF ~ is_ended(s) THEN None
    ELSE IF Owner(s) = 1 THEN << 2, 0 >>
         ELSE IF Owner(s) = 2 THEN << 0, 2 >>
              ELSE << 1, 1 >>

(***************************************************************************)
(* Positions think is started on.                                          *)
(***************************************************************************)
\*  X O X
\*  O X O      finished: X owns the diagonal
\*  O X X
BoardEnded == [ cells |-> << 1, 2, 1, 2, 1, 2, 2, 1, 1 >>, player |-> 2 ]

\*  X O X
\*  X O O      one free cell, O to move, the game ends in a draw
\*  O X .
BoardOne == [ cells |-> << 1, 2, 1, 1, 2, 2, 2, 1, 0 >>, player |-> 2 ]

\*  X X O
\*  X O .      two free cells, O to move and able to win at once
\*  . O X
BoardTwo == [ cells |-> << 1, 1, 2, 1, 2, 0, 0, 2, 1 >>, player |-> 2 ]

\*  X O .
\*  . X O      three free cells, X to move
\*  O X .
BoardThree == [ cells |-> << 1, 2, 0, 0, 1, 2, 2, 1, 0 >>, player |-> 1 ]

\*  X . .
\*  . O X      four free cells, O to move
\*  . X O
BoardFour == [ cells |-> << 1, 0, 0, 0, 2, 1, 0, 1, 2 >>, player |-> 2 ]

\*  . X O
\*  O . O      three free cells with the center, O to move
\*  X . X
BoardCenter == [ cells |-> << 0, 1, 2, 2, 0, 2, 1, 0, 1 >>, player |-> 2 ]

StartStates ==
    { BoardEnded, BoardOne, BoardTwo, BoardThree, BoardFour, BoardCenter }

(***************************************************************************)
(* Search node (MCTSNode of mcts_node.py).  The tree is an arena: a        *)
(* sequence of nodes, a node is named by its index, the root is 1 and an   *)
(* absent node is NoNode.  child_nodes is a dict: a sequence of            *)
(* <<action, node>> pairs in insertion order.                              *)
(***************************************************************************)
MCTSNode(parent, parent_action, action_list) ==
    [ parent          |-> parent,
      parent_action   |-> parent_action,
      child_nodes     |-> << >>,
      untried_actions |-> action_list,
      wins            |-> 0,
      visits          |-> 0 ]

Root == 1

RECURSIVE DictSet(_, _, _)
DictSet(d, k, v) ==
    IF d = << >> THEN << <<k, v>> >>
    ELSE IF Head(d)[1] = k THEN << <<k, v>> >> \o Tail(d)
         ELSE << Head(d) >> \o DictSet(Tail(d), k, v)

Keys(d) == { d[i][1] : i \in 1..Len(d) }

Range(seq) == { seq[i] : i \in 1..Len(seq) }

(***************************************************************************)
(* Arithmetic of ucb.  Scores are kept in units of 10^-5 (fixed point):    *)
(* the order of two scores of children of one parent, and their equality,  *)
(* is that of the floating point values for every visit count up to 12.    *)
(***************************************************************************)
Scale == 100000

\* log(n) in units of 10^-8, n = 1..12
LnTable == << 0, 69314718, 109861229, 138629436, 160943791, 179175947,
             194591015, 207944154, 219722458, 230258509, 239789527,
             248490665 >>

log(n) == LnTable[n]

RECURSIVE SqrtBetween(_, _, _)
SqrtBetween(x, lo, hi) ==
    IF lo >= hi THEN lo
    ELSE LET mid == (lo + hi + 1) \div 2
         IN  IF mid * mid <= x THEN SqrtBetween(x, mid, hi)
             ELSE SqrtBetween(x, lo, mid - 1)

\* floor(sqrt(x)), x < 2^31
ISqrt(x) == SqrtBetween(x, 0, 46340)

RECURSIVE DigitsBetween(_, _, _, _)
DigitsBetween(r0, rem, lo, hi) ==
    IF lo >= hi THEN lo
    ELSE LET mid == (lo + hi + 1) \div 2
         IN  IF 20 * r0 * mid + mid * mid <= 100 * rem
             THEN DigitsBetween(r0, rem, mid, hi)
             ELSE DigitsBetween(r0, rem, lo, mid - 1)

\* floor(sqrt(100 * x)): the square root of x with one more decimal digit
sqrt(x) ==
    LET r0 == ISqrt(x)
    IN  10 * r0 + DigitsBetween(r0, x - r0 * r0, 0, 19)

\* ucb divides by node.visits and takes log(node.parent.visits)
ucbFault(t, n) ==
    IF t[n].visits = 0 THEN "ZeroDivisionError"
    ELSE IF t[t[n].parent].visits = 0 THEN "ValueError"
         ELSE "none"

\* winRate + sqrt(2) * sqrt(log(parent.visits) / visits), in units of 10^-5
ucb(t, n, is_opponent) ==
    LET winRate  == (t[n].wins * Scale) \div t[n].visits
        adjusted == IF is_opponent THEN Scale - winRate ELSE winRate
    IN  adjusted + sqrt((2 * log(t[t[n].parent].visits)) \div t[n].visits)

(***************************************************************************)
(* expand_leaf: the tree after the call and the (node, state) it returns.  *)
(***************************************************************************)
\* expand_leaf handing back the state it was given instead of the new one
expand_leafStaleState(t, n, s) ==
    IF t[n].untried_actions = << >>
    THEN [ tree |-> t, node |-> NoNode, state |-> s ]
    ELSE LET untried        == t[n].untried_actions
             actionToExpand == untried[Len(untried)]
             newGameState   == next_state(s, actionToExpand)
             newChildNode   == Len(t) + 1
             popped         == [ t EXCEPT ![n].untried_actions =
                                               SubSeq(untried, 1, Len(untried) - 1) ]
             created        == Append(popped,
                                      MCTSNode(n, actionToExpand,
                                               legal_actions(newGameState)))
         IN  [ tree  |-> [ created EXCEPT ![n].child_nodes =
                              DictSet(created[n].child_nodes, actionToExpand,
                                      newChildNode) ],
               node  |-> newChildNode,
               state |-> s ]

\* expand_leaf taking the first untried action (pop(0)) instead of the last
expand_leafPopsFirst(t, n, s) ==
    IF t[n].untried_actions = << >>
    THEN [ tree |-> t, node |-> NoNode, state |-> s ]
    ELSE LET untried        == t[n].untried_actions
             actionToExpand == untried[1]
             newGameState   == next_state(s, actionToExpand)
             newChildNode   == Len(t) + 1
             popped         == [ t EXCEPT ![n].untried_actions = Tail(untried) ]
             created        == Append(popped,
                                      MCTSNode(n, actionToExpand,
                                               legal_actions(newGameState)))
         IN  [ tree  |-> [ created EXCEPT ![n].child_nodes =
                              DictSet(created[n].child_nodes, actionToExpand,
                                      newChildNode) ],
               node  |-> newChildNode,
               state |-> newGameState ]

\* expand_leaf handing back the node it was given when nothing is untried
expand_leafNothingReturnsNode(t, n, s) ==
    IF t[n].untried_actions = << >>
    THEN [ tree |-> t, node |-> n, state |-> s ]
    ELSE LET untried        == t[n].untried_actions
             actionToExpand == untried[Len(untried)]
             newGameState   == next_state(s, actionToExpand)
             newChildNode   == Len(t) + 1
             popped         == [ t EXCEPT ![n].untried_actions =
                                               SubSeq(untried, 1, Len(untried) - 1) ]
             created        == Append(popped,
                                      MCTSNode(n, actionToExpand,
                                               legal_actions(newGameState)))
         IN  [ tree  |-> [ created EXCEPT ![n].child_nodes =
                              DictSet(created[n].child_nodes, actionToExpand,
                                      newChildNode) ],
               node  |-> newChildNode,
               state |-> newGameState ]

\* expand_leaf reading the last untried action without removing it
expand_leafKeepsUntried(t, n, s) ==
    IF t[n].untried_actions = << >>
    THEN [ tree |-> t, node |-> NoNode, state |-> s ]
    ELSE LET untried        == t[n].untried_actions
             actionToExpand == untried[Len(untried)]
             newGameState   == next_state(s, actionToExpand)
             newChildNode   == Len(t) + 1
             created        == Append(t,
                                      MCTSNode(n, actionToExpand,
                                               legal_actions(newGameState)))
         IN  [ tree  |-> [ created EXCEPT ![n].child_nodes =
                              DictSet(created[n].child_nodes, actionToExpand,
                                      newChildNode) ],
               node  |-> newChildNode,
               state |-> newGameState ]

\* expand_leaf returning the node it was given instead of the new child
expand_leafReturnsParent(t, n, s) ==
    IF t[n].untried_actions = << >>
    THEN [ tree |-> t, node |-> NoNode, state |-> s ]
    ELSE LET untried        == t[n].untried_actions
             actionToExpand == untried[Len(untried)]
             newGameState   == next_state(s, actionToExpand)
             newChildNode   == Len(t) + 1
             popped         == [ t EXCEPT ![n].untried_actions =
                                               SubSeq(untried, 1, Len(untried) - 1) ]
             created        == Append(popped,
                                      MCTSNode(n, actionToExpand,
                                               legal_actions(newGameState)))
         IN  [ tree  |-> [ created EXCEPT ![n].child_nodes =
                              DictSet(created[n].child_nodes, actionToExpand,
                                      newChildNode) ],
               node  |-> n,
               state |-> s ]

expand_leaf(t, n, s) ==
    IF t[n].untried_actions = << >>
    THEN [ tree |-> t, node |-> NoNode, state |-> s ]
    ELSE LET untried        == t[n].untried_actions
             actionToExpand == untried[Len(untried)]
             newGameState   == next_state(s, actionToExpand)
             newChildNode   == Len(t) + 1
             popped         == [ t EXCEPT ![n].untried_actions =
                                               SubSeq(untried, 1, Len(untried) - 1) ]
             created        == Append(popped,
                                      MCTSNode(n, actionToExpand,
                                               legal_actions(newGameState)))
         IN  [ tree  |-> [ created EXCEPT ![n].child_nodes =
                              DictSet(created[n].child_nodes, actionToExpand,
                                      newChildNode) ],
               node  |-> newChildNode,
               state |-> newGameState ]

(***************************************************************************)
(* Rollout of mcts_modified.py.  Scores are kept in hundreds (every weight *)
(* of heuristic is a multiple of 100); the initial best_score of rollout,  *)
(* -9999999999999999999999, is below every score heuristic returns and is  *)
(* kept as LowestScore.                                                    *)
(***************************************************************************)
LowestScore == -2000000000

Corners == { <<0, 0>>, <<0, 2>>, <<2, 0>>, <<2, 2>> }

SideCenters == { <<1, 0>>, <<0, 1>>, <<1, 2>>, <<2, 1>> }

\* a heuristic whose bonus for ending the game is below the one for the center
heuristicLowWin(s, opponent, currentPlayer, action) ==
    LET cell == << action[3], action[4] >>
    IN  IF currentPlayer # opponent
        THEN (IF win_values(s) # None THEN 1000 ELSE 0)
             + (IF cell = <<1, 1>> THEN 1000000 ELSE 0)
             + (IF cell \in Corners THEN 5 ELSE 0)
             + (IF cell \in SideCenters THEN 1 ELSE 0)
        ELSE 0 - (IF win_values(s) # None THEN 100 ELSE 0)
               - (IF cell = <<1, 1>> THEN 10 ELSE 0)
               - (IF cell \in Corners THEN 5 ELSE 0)
               - (IF cell \in SideCenters THEN 1 ELSE 0)

heuristic(s, opponent, currentPlayer, action) ==
    LET cell == << action[3], action[4] >>
    IN  IF currentPlayer # opponent
        THEN (IF win_values(s) # None THEN 1000000000 ELSE 0)
             + (IF cell = <<1, 1>> THEN 1000000 ELSE 0)
             + (IF cell \in Corners THEN 5 ELSE 0)
             + (IF cell \in SideCenters THEN 1 ELSE 0)
        ELSE 0 - (IF win_values(s) # None THEN 100 ELSE 0)
               - (IF cell = <<1, 1>> THEN 10 ELSE 0)
               - (IF cell \in Corners THEN 5 ELSE 0)
               - (IF cell \in SideCenters THEN 1 ELSE 0)

\* the for loop of rollout from its i-th action on: the best_action it ends with
RECURSIVE GreedyScan(_, _, _, _, _, _, _)
GreedyScan(s, actions, i, opponent, currentPlayer, best_score, best_action) ==
    IF i > Len(actions) THEN best_action
    ELSE LET new_state == next_state(s, actions[i])
             score     == heuristic(new_state, opponent, currentPlayer, actions[i])
         IN  IF score > best_score
             THEN GreedyScan(s, actions, i + 1, opponent, currentPlayer,
                             score, actions[i])
             ELSE GreedyScan(s, actions, i + 1, opponent, currentPlayer,
                             best_score, best_action)

GreedyAction(s, opponent, currentPlayer) ==
    GreedyScan(s, legal_actions(s), 1, opponent, currentPlayer, LowestScore, None)

(***************************************************************************)
(* State of one call of think.                                             *)
(***************************************************************************)
VARIABLES
    policy,          \* "vanilla" or "modified": the file whose rollout runs
    current_state,   \* think's argument
    num_nodes,       \* the iteration budget
    bot_identity,    \* think: player to move in current_state
    tree,            \* the nodes reachable from root_node
    iterations,      \* iterations of think's for loop started so far
    node, state,     \* think / traverse_nodes: the pair being advanced
    currentBestUcb, bestChild,   \* traverse_nodes: locals of one selection pass
    scan,            \* position of the running for loop in child_nodes.items()
    lastUcb,         \* the latest call of ucb: its arguments and its result
    rstate,          \* rollout: its local state
    rcurrent_player, ropponent,  \* rollout of mcts_modified: captured at entry
    rolloutState, won,           \* think: results of rollout and is_win
    bp,              \* backpropagate: its local node
    bestAction, bestWinRate,     \* get_best_action: locals; a rate is <<num, den>>
    best_action,     \* think: the value returned
    pc,              \* the statement think is at
    fault,           \* the exception that ended think, "none" otherwise
    ended,           \* history: per iteration, the node and flag backpropagated
    ret              \* a direct call of expand_leaf on the finished tree

vars == << policy, current_state, num_nodes, bot_identity, tree, iterations,
           node, state, currentBestUcb, bestChild, scan, lastUcb, rstate,
           rcurrent_player, ropponent, rolloutState, won, bp, bestAction,
           bestWinRate, best_action, pc, fault, ended, ret >>

params == << policy, current_state, num_nodes, bot_identity >>

traverseLocals == << currentBestUcb, bestChild, lastUcb >>

rolloutLocals == << rstate, rcurrent_player, ropponent >>

bestLocals == << bestAction, bestWinRate >>

\* -9999, the initial currentBestUcb of traverse_nodes, in units of 10^-5
UcbSentinel == -9999 * Scale

\* a best win rate that starts at 0
WinRateSentinelZero == << 0, 1 >>

\* -9999, the initial bestWinRate of get_best_action
WinRateSentinel == << -9999, 1 >>

NoUcb == [ called |-> FALSE, parent |-> NoNode, child |-> NoNode,
           is_opponent |-> FALSE, value |-> 0 ]

\* the game state of node n: the parent_actions from the root replayed
RECURSIVE StateOf(_, _)
StateOf(t, n) ==
    IF t[n].parent = NoNode THEN current_state
    ELSE next_state(StateOf(t, t[n].parent), t[n].parent_action)

Init ==
    /\ policy \in { "vanilla", "modified" }
    /\ current_state \in StartStates
    /\ num_nodes \in 0..MaxIterations
    /\ bot_identity = current_player(current_state)
    /\ tree = << MCTSNode(NoNode, None, legal_actions(current_state)) >>
    /\ iterations = 0
    /\ node = NoNode
    /\ state = current_state
    /\ currentBestUcb = UcbSentinel
    /\ bestChild = NoNode
    /\ scan = 1
    /\ lastUcb = NoUcb
    /\ rstate = current_state
    /\ rcurrent_player = bot_identity
    /\ ropponent = bot_identity
    /\ rolloutState = current_state
    /\ won = FALSE
    /\ bp = NoNode
    /\ bestAction = None
    /\ bestWinRate = WinRateSentinel
    /\ best_action = None
    /\ pc = "for"
    /\ fault = "none"
    /\ ended = << >>
    /\ ret = [ called |-> FALSE, arg_node |-> NoNode, arg_state |-> current_state,
               before |-> tree, node |-> NoNode, state |-> current_state ]

(***************************************************************************)
(* think: the for loop.                                                    *)
(***************************************************************************)
StartIteration ==
    /\ pc = "for"
    /\ iterations < num_nodes
    /\ iterations' = iterations + 1
    /\ state' = current_state
    /\ node' = Root
    /\ pc' = "think_while"
    /\ UNCHANGED << params, tree, traverseLocals, scan, rolloutLocals,
                    rolloutState, won, bp, bestLocals, best_action, fault,
                    ended, ret >>

BudgetExhausted ==
    /\ pc = "for"
    /\ iterations >= num_nodes
    /\ bestAction' = None
    /\ bestWinRate' = WinRateSentinel
    /\ scan' = 1
    /\ pc' = "get_best"
    /\ UNCHANGED << params, tree, iterations, node, state, traverseLocals,
                    rolloutLocals, rolloutState, won, bp, best_action, fault,
                    ended, ret >>

\* while not node.untried_actions and node.child_nodes: call traverse_nodes
ThinkWhile ==
    /\ pc = "think_while"
    /\ pc' = IF tree[node].untried_actions = << >> /\ tree[node].child_nodes # << >>
             THEN "trav_while"
             ELSE "think_if"
    /\ UNCHANGED << params, tree, iterations, node, state, traverseLocals, scan,
                    rolloutLocals, rolloutState, won, bp, bestLocals,
                    best_action, fault, ended, ret >>

(***************************************************************************)
(* traverse_nodes.                                                         *)
(***************************************************************************)
\* the while test; a pass starts with the sentinel and no best child
TraverseWhile ==
    /\ pc = "trav_while"
    /\ IF tree[node].untried_actions = << >> /\ tree[node].child_nodes # << >>
       THEN /\ currentBestUcb' = UcbSentinel
            /\ bestChild' = NoNode
            /\ scan' = 1
            /\ pc' = "trav_for"
       ELSE /\ pc' = "think_while"
            /\ UNCHANGED << currentBestUcb, bestChild, scan >>
    /\ UNCHANGED << params, tree, iterations, node, state, lastUcb,
                    rolloutLocals, rolloutState, won, bp, bestLocals,
                    best_action, fault, ended, ret >>

\* a comparison that lets a later child of equal score replace the best
ImprovesOnOrTies(ucbValue, best) == ucbValue >= best

\* a comparison turned around: no score is below the sentinel
ImprovesOnReversed(ucbValue, best) == ucbValue < best

\* if ucbValue > currentBestUcb
ImprovesOn(ucbValue, best) == ucbValue > best

\* one turn of the for loop over node.child_nodes.items()
TraverseFor ==
    /\ pc = "trav_for"
    /\ scan <= Len(tree[node].child_nodes)
    /\ LET child       == tree[node].child_nodes[scan][2]
           is_opponent == (bot_identity = current_player(state))
       IN  IF ucbFault(tree, child) # "none"
           THEN /\ fault' = ucbFault(tree, child)
                /\ pc' = "fault"
                /\ lastUcb' = [ called |-> TRUE, parent |-> node, child |-> child,
                                is_opponent |-> is_opponent, value |-> 0 ]
                /\ UNCHANGED << currentBestUcb, bestChild, scan >>
           ELSE LET ucbValue == ucb(tree, child, is_opponent)
                IN  /\ lastUcb' = [ called |-> TRUE, parent |-> node,
                                    child |-> child,
                                    is_opponent |-> is_opponent,
                                    value |-> ucbValue ]
                    /\ IF ImprovesOn(ucbValue, currentBestUcb)
                       THEN /\ currentBestUcb' = ucbValue
                            /\ bestChild' = child
                       ELSE UNCHANGED << currentBestUcb, bestChild >>
                    /\ scan' = scan + 1
                    /\ UNCHANGED << pc, fault >>
    /\ UNCHANGED << params, tree, iterations, node, state, rolloutLocals,
                    rolloutState, won, bp, bestLocals, best_action, ended, ret >>

\* after the for loop: continue from the best child, if there is one
TraverseMove ==
    /\ pc = "trav_for"
    /\ scan > Len(tree[node].child_nodes)
    /\ IF bestChild # NoNode
       THEN /\ node' = bestChild
            /\ state' = next_state(state, tree[bestChild].parent_action)
       ELSE UNCHANGED << node, state >>
    /\ pc' = "trav_while"
    /\ UNCHANGED << params, tree, iterations, traverseLocals, scan,
                    rolloutLocals, rolloutState, won, bp, bestLocals,
                    best_action, fault, ended, ret >>

(***************************************************************************)
(* think: expansion.                                                       *)
(***************************************************************************)
\* expand_leaf called whether or not the node has untried actions
ThinkIfUnguarded ==
    /\ pc = "think_if"
    /\ LET r == expand_leaf(tree, node, state)
       IN  /\ tree' = r.tree
           /\ node' = r.node
           /\ state' = r.state
    /\ pc' = "rollout"
    /\ UNCHANGED << params, iterations, traverseLocals, scan, rolloutLocals,
                    rolloutState, won, bp, bestLocals, best_action, fault,
                    ended, ret >>

\* if node.untried_actions: node, state = expand_leaf(node, board, state)
ThinkIf ==
    /\ pc = "think_if"
    /\ IF tree[node].untried_actions # << >>
       THEN LET r == expand_leaf(tree, node, state)
            IN  /\ tree' = r.tree
                /\ node' = r.node
                /\ state' = r.state
       ELSE UNCHANGED << tree, node, state >>
    /\ pc' = "rollout"
    /\ UNCHANGED << params, iterations, traverseLocals, scan, rolloutLocals,
                    rolloutState, won, bp, bestLocals, best_action, fault,
                    ended, ret >>

(***************************************************************************)
(* rollout.                                                                *)
(***************************************************************************)
\* entry: mcts_modified captures current_player and opponent once
RolloutEnter ==
    /\ pc = "rollout"
    /\ rstate' = state
    /\ IF policy = "modified"
       THEN /\ rcurrent_player' = current_player(state)
            /\ ropponent' = IF current_player(state) = 2 THEN 1 ELSE 2
       ELSE UNCHANGED << rcurrent_player, ropponent >>
    /\ pc' = "rollout_while"
    /\ UNCHANGED << params, tree, iterations, node, state, traverseLocals, scan,
                    rolloutState, won, bp, bestLocals, best_action, fault,
                    ended, ret >>

\* mcts_vanilla: chosenAction = choice(board.legal_actions(state))
RolloutRandom ==
    /\ pc = "rollout_while"
    /\ policy = "vanilla"
    /\ ~ is_ended(rstate)
    /\ IF legal_actions(rstate) = << >>
       THEN /\ fault' = "IndexError"
            /\ pc' = "fault"
            /\ UNCHANGED rstate
       ELSE /\ \E chosenAction \in Range(legal_actions(rstate)) :
                   rstate' = next_state(rstate, chosenAction)
            /\ UNCHANGED << pc, fault >>
    /\ UNCHANGED << params, tree, iterations, node, state, traverseLocals, scan,
                    rcurrent_player, ropponent, rolloutState, won, bp,
                    bestLocals, best_action, ended, ret >>

\* mcts_modified: the first action of the highest heuristic score
RolloutGreedy ==
    /\ pc = "rollout_while"
    /\ policy = "modified"
    /\ ~ is_ended(rstate)
    /\ LET chosen == GreedyAction(rstate, ropponent, rcurrent_player)
       IN  IF chosen = None
           THEN /\ fault' = "TypeError"
                /\ pc' = "fault"
                /\ UNCHANGED rstate
           ELSE /\ rstate' = next_state(rstate, chosen)
                /\ UNCHANGED << pc, fault >>
    /\ UNCHANGED << params, tree, iterations, node, state, traverseLocals, scan,
                    rcurrent_player, ropponent, rolloutState, won, bp,
                    bestLocals, best_action, ended, ret >>

\* a rollout that may come back before the game has ended
RolloutReturnEarly ==
    /\ pc = "rollout_while"
    /\ rolloutState' = rstate
    /\ pc' = "is_win"
    /\ UNCHANGED << params, tree, iterations, node, state, traverseLocals, scan,
                    rolloutLocals, won, bp, bestLocals, best_action, fault,
                    ended, ret >>

\* while not board.is_ended(state) is over: return state
RolloutReturn ==
    /\ pc = "rollout_while"
    /\ is_ended(rstate)
    /\ rolloutState' = rstate
    /\ pc' = "is_win"
    /\ UNCHANGED << params, tree, iterations, node, state, traverseLocals, scan,
                    rolloutLocals, won, bp, bestLocals, best_action, fault,
                    ended, ret >>

(***************************************************************************)
(* is_win and backpropagate.                                               *)
(***************************************************************************)
\* won = is_win(board, rolloutState, bot_identity); backpropagate(node, won)
IsWin ==
    /\ pc = "is_win"
    /\ LET outcome == points_values(rolloutState)
       IN  IF outcome = None
           THEN /\ fault' = "AssertionError"
                /\ pc' = "fault"
                /\ UNCHANGED << won, bp, ended >>
           ELSE /\ won' = (outcome[bot_identity] = 1)
                /\ bp' = node
                /\ ended' = Append(ended, [ node |-> node, won |-> won' ])
                /\ pc' = "backprop"
                /\ UNCHANGED fault
    /\ UNCHANGED << params, tree, iterations, node, state, traverseLocals, scan,
                    rolloutLocals, rolloutState, bestLocals, best_action, ret >>

\* the walk stops below the root: the root's visits are never counted
backpropagateVisitsBelowRoot(t, n) ==
    IF t[n].parent = NoNode THEN t ELSE [ t EXCEPT ![n].visits = @ + 1 ]

\* while node is not None: node.visits += 1
backpropagateVisits(t, n) == [ t EXCEPT ![n].visits = @ + 1 ]

\* wins counted whatever the outcome flag
backpropagateWinsAlways(t, n, w) == [ t EXCEPT ![n].wins = @ + 1 ]

\* if won: node.wins += 1
backpropagateWins(t, n, w) == IF w THEN [ t EXCEPT ![n].wins = @ + 1 ] ELSE t

BackpropagateVisit ==
    /\ pc = "backprop"
    /\ IF bp # NoNode
       THEN /\ tree' = backpropagateVisits(tree, bp)
            /\ pc' = "backprop_wins"
       ELSE /\ pc' = "for"
            /\ UNCHANGED tree
    /\ UNCHANGED << params, iterations, node, state, traverseLocals, scan,
                    rolloutLocals, rolloutState, won, bp, bestLocals,
                    best_action, fault, ended, ret >>

\* ... then node = node.parent
BackpropagateWin ==
    /\ pc = "backprop_wins"
    /\ tree' = backpropagateWins(tree, bp, won)
    /\ bp' = tree[bp].parent
    /\ pc' = "backprop"
    /\ UNCHANGED << params, iterations, node, state, traverseLocals, scan,
                    rolloutLocals, rolloutState, won, bestLocals, best_action,
                    fault, ended, ret >>

(***************************************************************************)
(* get_best_action and the return of think.                                *)
(***************************************************************************)
\* a comparison that lets a later child of equal rate replace the best
RateGreaterOrEqual(x, y) == x[1] * y[2] >= y[1] * x[2]

\* a / b > c / d for positive b and d
RateGreater(x, y) == x[1] * y[2] > y[1] * x[2]

\* one turn of the for loop over root_node.child_nodes.items()
GetBestFor ==
    /\ pc = "get_best"
    /\ scan <= Len(tree[Root].child_nodes)
    /\ LET action == tree[Root].child_nodes[scan][1]
           child  == tree[Root].child_nodes[scan][2]
       IN  IF tree[child].visits = 0
           THEN /\ fault' = "ZeroDivisionError"
                /\ pc' = "fault"
                /\ UNCHANGED << bestAction, bestWinRate, scan >>
           ELSE LET winRate == << tree[child].wins, tree[child].visits >>
                IN  /\ IF RateGreater(winRate, bestWinRate)
                       THEN /\ bestWinRate' = winRate
                            /\ bestAction' = action
                       ELSE UNCHANGED << bestAction, bestWinRate >>
                    /\ scan' = scan + 1
                    /\ UNCHANGED << pc, fault >>
    /\ UNCHANGED << params, tree, iterations, node, state, traverseLocals,
                    rolloutLocals, rolloutState, won, bp, best_action, ended,
                    ret >>

\* return bestAction; think returns it
ThinkReturn ==
    /\ pc = "get_best"
    /\ scan > Len(tree[Root].child_nodes)
    /\ best_action' = bestAction
    /\ pc' = "done"
    /\ UNCHANGED << params, tree, iterations, node, state, traverseLocals, scan,
                    rolloutLocals, rolloutState, won, bp, bestLocals, fault,
                    ended, ret >>

Next ==
    \/ StartIteration
    \/ BudgetExhausted
    \/ ThinkWhile
    \/ TraverseWhile
    \/ TraverseFor
    \/ TraverseMove
    \/ ThinkIf
    \/ RolloutEnter
    \/ RolloutRandom
    \/ RolloutGreedy
    \/ RolloutReturn
    \/ IsWin
    \/ BackpropagateVisit
    \/ BackpropagateWin
    \/ GetBestFor
    \/ ThinkReturn

Spec == Init /\ [][Next]_vars

(***************************************************************************)
(* expand_leaf called directly on a node of the tree think has built, with *)
(* the game state of that node.                                            *)
(***************************************************************************)
ExpandLeafCall ==
    /\ pc = "done"
    /\ ~ ret.called
    /\ \E n \in 1..Len(tree) :
          LET r == expand_leaf(tree, n, StateOf(tree, n))
          IN  /\ ret' = [ called |-> TRUE, arg_node |-> n,
                          arg_state |-> StateOf(tree, n), before |-> tree,
                          node |-> r.node, state |-> r.state ]
              /\ tree' = r.tree
    /\ UNCHANGED << params, iterations, node, state, traverseLocals, scan,
                    rolloutLocals, rolloutState, won, bp, bestLocals,
                    best_action, pc, fault, ended >>

NextExpand == Next \/ ExpandLeafCall

SpecExpand == Init /\ [][NextExpand]_vars

(***************************************************************************)
(* Properties.                                                             *)
(***************************************************************************)
Nodes == 1..Len(tree)

\* n is m or an ancestor of m
RECURSIVE OnPath(_, _)
OnPath(n, m) ==
    IF m = NoNode THEN FALSE
    ELSE IF m = n THEN TRUE
         ELSE OnPath(n, tree[m].parent)

RECURSIVE SumVisits(_, _)
SumVisits(d, i) ==
    IF i > Len(d) THEN 0 ELSE tree[d[i][2]].visits + SumVisits(d, i + 1)

\* C1: every node of the tree has 0 <= wins <= visits, in every state of
\* think, also in the middle of an iteration or of a backpropagation.
C1_WinsWithinVisits ==
    \A n \in Nodes : 0 <= tree[n].wins /\ tree[n].wins <= tree[n].visits

\* a backpropagation of a win has counted the visit of a node that already
\* had wins, and not yet its win
C1_Witness ==
    /\ pc = "backprop_wins"
    /\ won
    /\ bp # Root
    /\ tree[bp].wins >= 1
    /\ tree[bp].visits = tree[bp].wins + 1

PassedThrough(n) == { i \in 1..Len(ended) : OnPath(n, ended[i].node) }

\* C2: between iterations, the visits of every node are the number of
\* completed iterations whose backpropagation path (the node the iteration
\* ended on and its ancestors) holds the node, and its wins the number of
\* those whose outcome flag was true.
C2_VisitsCountPaths ==
    pc = "for" =>
        \A n \in Nodes :
            /\ tree[n].visits = Cardinality(PassedThrough(n))
            /\ tree[n].wins =
                   Cardinality({ i \in PassedThrough(n) : ended[i].won })

\* some node below the root has been passed through by winning and by
\* losing iterations, and by fewer iterations than the root
C2_Witness ==
    /\ pc = "for"
    /\ iterations >= 5
    /\ \E n \in Nodes :
          /\ n # Root
          /\ tree[n].wins >= 1
          /\ tree[n].visits >= tree[n].wins + 1
          /\ tree[n].child_nodes # << >>

\* C3: once the budget is exhausted on a root state with a legal action, no
\* iteration has ended at the root, the visits of the root's children sum to
\* the budget and the root's visits are the budget.
C3_RootVisitCount ==
    (pc \in { "get_best", "done" } /\ legal_actions(current_state) # << >>) =>
        /\ \A i \in 1..Len(ended) : ended[i].node # Root
        /\ SumVisits(tree[Root].child_nodes, 1) = num_nodes
        /\ tree[Root].visits = num_nodes

C3_Witness ==
    /\ pc = "done"
    /\ num_nodes = MaxIterations
    /\ Len(tree[Root].child_nodes) >= 3
    /\ \E i \in 1..Len(ended) : tree[ended[i].node].parent # Root

\* C4: ucb is only called, and a win rate only computed, on a child whose
\* visits and whose parent's visits are positive: when a selection pass or
\* the extraction of the decision runs, every node expand_leaf created has
\* been backpropagated through, and no division by zero happens.
C4_NoZeroVisitChild ==
    /\ fault \notin { "ZeroDivisionError", "ValueError" }
    /\ pc \in { "trav_while", "trav_for", "get_best" } =>
          \A n \in Nodes : n # Root => tree[n].visits > 0
    /\ (pc = "trav_for" /\ scan <= Len(tree[node].child_nodes)) =>
          /\ tree[tree[node].child_nodes[scan][2]].visits > 0
          /\ tree[node].visits > 0
    /\ (pc = "get_best" /\ scan <= Len(tree[Root].child_nodes)) =>
          tree[tree[Root].child_nodes[scan][2]].visits > 0

\* ucb is about to be called on a child created in the previous iteration
C4_Witness ==
    /\ pc = "trav_for"
    /\ scan <= Len(tree[node].child_nodes)
    /\ tree[node].child_nodes[scan][2] = Len(tree)
    /\ tree[Len(tree)].visits = 1
    /\ node # Root

\* C5: the win rate of a child is flipped exactly when the player to move
\* at the parent's state is not bot_identity, and left as wins / visits when
\* the player to move at the parent's state is the bot.
C5_FlipIffOpponentMoved ==
    lastUcb.called =>
        ( lastUcb.is_opponent
            <=> current_player(StateOf(tree, lastUcb.parent)) # bot_identity )

\* C6: think returns None only when the budget is 0 or the root state has
\* no legal action; with a budget of at least 1 and a legal action it returns
\* a legal action of the input state that is a key of the root's children.
C6_ReturnsLegalAction ==
    pc = "done" =>
        /\ best_action = None =>
              (num_nodes = 0 \/ legal_actions(current_state) = << >>)
        /\ (num_nodes >= 1 /\ legal_actions(current_state) # << >>) =>
              /\ best_action \in Range(legal_actions(current_state))
              /\ best_action \in Keys(tree[Root].child_nodes)

\* think returns the action of a root child that is not the first one, from
\* a root all of whose children lost every simulation but one child
C6_Witness ==
    /\ pc = "done"
    /\ Len(tree[Root].child_nodes) >= 2
    /\ best_action # None
    /\ best_action # tree[Root].child_nodes[1][1]
    /\ \E i \in 1..Len(tree[Root].child_nodes) :
          tree[tree[Root].child_nodes[i][2]].wins = 0

\* the score traverse_nodes gives the i-th child of n in state s
ScoreOf(n, s, i) ==
    ucb(tree, tree[n].child_nodes[i][2], bot_identity = current_player(s))

\* the first child, in the order of child_nodes, of maximal score
FirstMaxChild(n, s) ==
    LET d == tree[n].child_nodes
        i == CHOOSE k \in 1..Len(d) :
                 /\ \A j \in 1..Len(d) : ScoreOf(n, s, j) <= ScoreOf(n, s, k)
                 /\ \A j \in 1..(k - 1) : ScoreOf(n, s, j) < ScoreOf(n, s, k)
    IN  d[i][2]

InTraverse == pc \in { "trav_while", "trav_for" }

\* C7: traverse_nodes moves only from a node without untried actions and
\* with a child, to the child of maximal UCB score, the first such child in
\* the order of child_nodes; the node it returns has an untried action or
\* has no child.
C7_TraverseDescends ==
    [][ /\ (InTraverse /\ node' # node) => (pc = "trav_for" /\ pc' = "trav_while")
        /\ (pc = "trav_for" /\ pc' = "trav_while") =>
              /\ tree[node].untried_actions = << >>
              /\ tree[node].child_nodes # << >>
              /\ node' = FirstMaxChild(node, state)
        /\ (pc = "trav_while" /\ pc' = "think_while") =>
              /\ node' = node
              /\ (tree[node].untried_actions # << >>
                    \/ tree[node].child_nodes = << >>) ]_vars

\* a selection pass has ended on a tie for the best score, held by a child
\* that is not the first child of the node
C7_Witness ==
    /\ pc = "trav_for"
    /\ scan > Len(tree[node].child_nodes)
    /\ \E i, j \in 2..Len(tree[node].child_nodes) :
          /\ i < j
          /\ bestChild = tree[node].child_nodes[i][2]
          /\ ScoreOf(node, state, i) = currentBestUcb
          /\ ScoreOf(node, state, j) = currentBestUcb

InIteration ==
    pc \in { "think_while", "trav_while", "trav_for", "think_if", "rollout",
             "rollout_while", "is_win", "backprop", "backprop_wins" }

\* C8: throughout an iteration the state think holds is the input state
\* with the parent_actions on the path from the root to the node it holds
\* applied in order; every iteration starts from the root and the input
\* state; rollout is handed the state of the node that is backpropagated
\* from afterwards.
C8_NodeStateConsistent ==
    [][ /\ (InIteration => (node # NoNode /\ state = StateOf(tree, node)))
        /\ (InIteration' => (node' # NoNode /\ state' = StateOf(tree', node')))
        /\ (iterations' # iterations) => (node' = Root /\ state' = current_state)
        /\ (pc = "rollout" /\ pc' # "rollout") => rstate' = StateOf(tree, node)
        /\ (pc = "is_win" /\ pc' = "backprop") =>
              (bp' = node /\ ended'[Len(ended')].node = node)
        /\ (pc \in { "rollout", "rollout_while", "is_win" }) =>
              (node' = node /\ state' = state) ]_vars

\* a rollout starts from a node two moves below the root
C8_Witness ==
    /\ pc = "rollout_while"
    /\ node # Root
    /\ tree[node].parent # Root
    /\ rstate = state
    /\ ~ is_ended(state)

\* C9: expand_leaf on a node with untried actions removes the last one and
\* keeps the others in order, creates one child (parent the node,
\* parent_action the removed action, untried_actions the legal actions of
\* the next state, no visits, no wins), registers it under the removed
\* action, returns it with the next state, and changes no other node.
C9_ExpandAddsOneChild ==
    [][ (pc = "think_if" /\ tree[node].untried_actions # << >>) =>
          LET untried == tree[node].untried_actions
              removed == untried[Len(untried)]
              next    == next_state(state, removed)
          IN  /\ Len(tree') = Len(tree) + 1
              /\ node' = Len(tree')
              /\ state' = next
              /\ tree'[node'] =
                    [ parent          |-> node,
                      parent_action   |-> removed,
                      child_nodes     |-> << >>,
                      untried_actions |-> legal_actions(next),
                      wins            |-> 0,
                      visits          |-> 0 ]
              /\ tree'[node].untried_actions =
                    SubSeq(untried, 1, Len(untried) - 1)
              /\ removed \notin Keys(tree[node].child_nodes)
              /\ tree'[node].child_nodes =
                    Append(tree[node].child_nodes, << removed, node' >>)
              /\ tree'[node].parent = tree[node].parent
              /\ tree'[node].parent_action = tree[node].parent_action
              /\ tree'[node].wins = tree[node].wins
              /\ tree'[node].visits = tree[node].visits
              /\ \A m \in Nodes : m # node => tree'[m] = tree[m] ]_vars

\* expand_leaf has just added a second child to a node below the root that
\* keeps an untried action
C9_Witness ==
    /\ pc = "rollout"
    /\ node = Len(tree)
    /\ node # Root
    /\ tree[node].visits = 0
    /\ tree[node].parent # Root
    /\ Len(tree[tree[node].parent].child_nodes) = 2
    /\ tree[tree[node].parent].untried_actions # << >>

\* C10: expand_leaf on a node without untried actions returns no node and
\* the state it was given, and changes nothing in the tree.
C10_ExpandNothing ==
    (ret.called /\ ret.before[ret.arg_node].untried_actions = << >>) =>
        /\ ret.node = NoNode
        /\ ret.state = ret.arg_state
        /\ tree = ret.before

\* expand_leaf was called on a fully expanded node that has children
C10_Witness ==
    /\ ret.called
    /\ ret.before[ret.arg_node].untried_actions = << >>
    /\ ret.before[ret.arg_node].child_nodes # << >>
    /\ ret.arg_node # Root

(***************************************************************************)
(* backpropagate as one call: the tree it leaves.  A direct call on a node *)
(* of the tree think has built, or on no node, with either outcome flag.   *)
(***************************************************************************)
\* a walk that ends after the parent of the node it started from
RECURSIVE backpropagateTwoLevels(_, _, _)
backpropagateTwoLevels(t, n, w) ==
    IF n = NoNode THEN t
    ELSE LET counted == backpropagateWins(backpropagateVisits(t, n), n, w)
             up      == t[n].parent
         IN  IF up = NoNode THEN counted
             ELSE backpropagateWins(backpropagateVisits(counted, up), up, w)

RECURSIVE backpropagate(_, _, _)
backpropagate(t, n, w) ==
    IF n = NoNode THEN t
    ELSE backpropagate(backpropagateWins(backpropagateVisits(t, n), n, w),
                       t[n].parent, w)

BackpropagateCall ==
    /\ pc = "done"
    /\ ~ ret.called
    /\ \E n \in 0..Len(tree), w \in BOOLEAN :
          /\ ret' = [ called |-> TRUE, arg_node |-> n,
                      arg_state |-> current_state, before |-> tree,
                      node |-> NoNode, state |-> current_state ]
          /\ won' = w
          /\ tree' = backpropagate(tree, n, w)
    /\ bp' = NoNode
    /\ UNCHANGED << params, iterations, node, state, traverseLocals, scan,
                    rolloutLocals, rolloutState, bestLocals, best_action, pc,
                    fault, ended >>

NextBackpropagate == Next \/ BackpropagateCall

SpecBackpropagate == Init /\ [][NextBackpropagate]_vars

\* n is m or an ancestor of m in tree t
RECURSIVE OnPathIn(_, _, _)
OnPathIn(t, n, m) ==
    IF m = NoNode THEN FALSE
    ELSE IF m = n THEN TRUE
         ELSE OnPathIn(t, n, t[m].parent)

\* C11: backpropagate(node, won) adds 1 to the visits of the node and of
\* each of its ancestors up to the root, adds 1 to the wins of the same
\* nodes iff won, leaves visits and wins of every other node, the topology
\* and the untried actions as they were, and does nothing without a node.
C11_BackpropagatePath ==
    ret.called =>
        /\ Len(tree) = Len(ret.before)
        /\ \A m \in 1..Len(ret.before) :
              LET onPath == OnPathIn(ret.before, m, ret.arg_node)
              IN  /\ tree[m].visits =
                        ret.before[m].visits + (IF onPath THEN 1 ELSE 0)
                  /\ tree[m].wins =
                        ret.before[m].wins + (IF onPath /\ won THEN 1 ELSE 0)
                  /\ tree[m].parent = ret.before[m].parent
                  /\ tree[m].parent_action = ret.before[m].parent_action
                  /\ tree[m].child_nodes = ret.before[m].child_nodes
                  /\ tree[m].untried_actions = ret.before[m].untried_actions
        /\ ret.arg_node = NoNode => tree = ret.before

\* a win was backpropagated from a node two levels below the root, in a
\* tree that has visited nodes off its path
C11_Witness ==
    /\ ret.called
    /\ won
    /\ ret.arg_node # NoNode
    /\ ret.arg_node # Root
    /\ ret.before[ret.arg_node].parent # Root
    /\ tree[Root].visits = ret.before[Root].visits + 1
    /\ \E m \in 1..Len(tree) :
          ~ OnPathIn(tree, m, ret.arg_node) /\ tree[m].visits > 0

\* wins / visits of the i-th child of the root, as <<num, den>>
RootRate(i) ==
    << tree[tree[Root].child_nodes[i][2]].wins,
       tree[tree[Root].child_nodes[i][2]].visits >>

\* the action of the first root child of maximal wins / visits
BestRootAction ==
    LET d == tree[Root].child_nodes
    IN  IF d = << >> THEN None
        ELSE LET i == CHOOSE k \in 1..Len(d) :
                          /\ \A j \in 1..Len(d) :
                                RootRate(j)[1] * RootRate(k)[2]
                                    <= RootRate(k)[1] * RootRate(j)[2]
                          /\ \A j \in 1..(k - 1) :
                                RootRate(j)[1] * RootRate(k)[2]
                                    < RootRate(k)[1] * RootRate(j)[2]
             IN  d[i][1]

\* C12: get_best_action returns the action of the root child of maximal
\* wins / visits, the first such child in the order of child_nodes, returns
\* None when the root has no child, and does not modify the tree.
C12_BestWinRate ==
    [][ /\ pc = "get_best" => tree' = tree
        /\ (pc = "get_best" /\ pc' = "done") =>
              /\ best_action' = BestRootAction
              /\ tree[Root].child_nodes = << >> => best_action' = None ]_vars

\* think has returned the action of the first of two root children that
\* share the best rate, a positive one, while a third child has a lower rate
C12_Witness ==
    /\ pc = "done"
    /\ \E k, i, j \in 1..Len(tree[Root].child_nodes) :
          /\ i < j
          /\ best_action = tree[Root].child_nodes[i][1]
          /\ RootRate(i)[1] > 0
          /\ RootRate(i)[1] * RootRate(j)[2] = RootRate(j)[1] * RootRate(i)[2]
          /\ RootRate(k)[1] * RootRate(i)[2] < RootRate(i)[1] * RootRate(k)[2]

\* the moves a game can still last from state s
FreeCells(s) == Cardinality({ i \in 1..9 : s.cells[i] = 0 })

\* the number of nodes on the path from the root to n
RECURSIVE Depth(_)
Depth(n) == IF n = NoNode THEN 0 ELSE 1 + Depth(tree[n].parent)

\* the statements one iteration has left to run, at most
IterationSteps ==
    CASE pc = "think_while" ->
             IF tree[node].untried_actions = << >> /\ tree[node].child_nodes # << >>
             THEN 50 + 14 * FreeCells(state) + 12
             ELSE 42
      [] pc = "trav_while" -> 50 + 14 * FreeCells(state) + 11
      [] pc = "trav_for" -> 50 + 14 * FreeCells(state) + 10 - scan
      [] pc = "think_if" -> 41
      [] pc = "rollout" -> 40
      [] pc = "rollout_while" -> 26 + FreeCells(rstate)
      [] pc = "is_win" -> 25
      [] pc = "backprop" -> 1 + 2 * Depth(bp)
      [] pc = "backprop_wins" -> 2 * Depth(bp)
      [] OTHER -> 0

\* the statements think has left to run, at most
StepsLeft ==
    CASE pc \in { "done", "fault" } -> 0
      [] pc = "get_best" -> 2 + Len(tree[Root].child_nodes) - scan
      [] OTHER -> 20 + 200 * (num_nodes - iterations) + IterationSteps

\* some statement of think can run: the guards of the actions of Next
Runnable ==
    \/ pc = "for" /\ (iterations < num_nodes \/ iterations >= num_nodes)
    \/ pc \in { "think_while", "trav_while", "think_if", "rollout", "is_win",
                "backprop", "backprop_wins" }
    \/ pc = "trav_for" /\ ( \/ scan <= Len(tree[node].child_nodes)
                            \/ scan > Len(tree[node].child_nodes) )
    \/ pc = "rollout_while" /\ ( \/ policy = "vanilla" /\ ~ is_ended(rstate)
                                 \/ policy = "modified" /\ ~ is_ended(rstate)
                                 \/ is_ended(rstate) )
    \/ pc = "get_best" /\ ( \/ scan <= Len(tree[Root].child_nodes)
                            \/ scan > Len(tree[Root].child_nodes) )

\* C13: on a game that ends after finitely many moves, each rollout, of
\* either policy, comes back with an ended state, each call of
\* traverse_nodes returns, and think finishes after exactly num_nodes
\* iterations, each with one rollout and one backpropagation.  Stated with
\* a bound on the statements left that every statement lowers: think is
\* never stuck before its return, never runs a statement for nothing, and
\* the counts at its return are as claimed.
C13_Terminates ==
    [][ /\ StepsLeft' < StepsLeft
        /\ StepsLeft' >= 0
        /\ fault' = "none"
        /\ pc' # "done" => Runnable'
        /\ pc' = "is_win" =>
              (is_ended(rolloutState') /\ Len(ended') + 1 = iterations')
        /\ pc' = "for" => Len(ended') = iterations'
        /\ pc' = "done" =>
              (iterations' = num_nodes' /\ Len(ended') = num_nodes') ]_vars

\* think has finished the largest budget with the greedy rollout, after
\* rollouts that started two moves below the root
C13_Witness ==
    /\ pc = "done"
    /\ policy = "modified"
    /\ num_nodes = MaxIterations
    /\ Len(ended) = MaxIterations
    /\ \E i \in 1..Len(ended) :
          /\ ended[i].node # Root
          /\ tree[ended[i].node].parent # Root

InGreedyStep ==
    pc = "rollout_while" /\ policy = "modified" /\ ~ is_ended(rstate)

\* the score rollout computes for a legal action of its current state
ScoreInRollout(action) ==
    heuristic(next_state(rstate, action), ropponent, rcurrent_player, action)

\* C14: in the greedy rollout the sign of the weights follows the mover:
\* the candidate actions of a ply moved by the favored side get bonuses,
\* those of a ply moved by the opponent captured at the start of the
\* rollout get the penalties, of the opposite sign.
C14_SignFollowsMover ==
    InGreedyStep =>
        \A i \in 1..Len(legal_actions(rstate)) :
            IF current_player(rstate) = ropponent
            THEN ScoreInRollout(legal_actions(rstate)[i]) < 0
            ELSE ScoreInRollout(legal_actions(rstate)[i]) > 0

EndsGame(action) == win_values(next_state(rstate, action)) # None

\* win > center > corner > edge center > plain
Rank(action) ==
    (IF EndsGame(action) THEN 4 ELSE 0)
    + (CASE << action[3], action[4] >> = <<1, 1>> -> 3
         [] << action[3], action[4] >> \in Corners -> 2
         [] << action[3], action[4] >> \in SideCenters -> 1
         [] OTHER -> 0)

\* the first legal action of maximal rank
FirstBestRanked ==
    LET acts == legal_actions(rstate)
        i == CHOOSE k \in 1..Len(acts) :
                 /\ \A j \in 1..Len(acts) : Rank(acts[j]) <= Rank(acts[k])
                 /\ \A j \in 1..(k - 1) : Rank(acts[j]) < Rank(acts[k])
    IN  acts[i]

\* C15: every step of the greedy rollout plays the first legal action of
\* maximal score, the scores being ordered win > center > corner > edge
\* center > plain; a legal action that alone ends the game is played
\* whatever the cells of the others.
C15_GreedyChoice ==
    [][ InGreedyStep =>
          /\ rstate' = next_state(rstate, FirstBestRanked)
          /\ \A i \in 1..Len(legal_actions(rstate)) :
                ( /\ EndsGame(legal_actions(rstate)[i])
                  /\ \A j \in 1..Len(legal_actions(rstate)) :
                        j # i => ~ EndsGame(legal_actions(rstate)[j]) )
                => rstate' = next_state(rstate, legal_actions(rstate)[i]) ]_vars

\* the greedy rollout is about to choose between the free center, first in
\* the legal actions, and an edge center that alone ends the game
C15_Witness ==
    /\ InGreedyStep
    /\ Len(legal_actions(rstate)) >= 2
    /\ legal_actions(rstate)[1] = << 0, 0, 1, 1 >>
    /\ ~ EndsGame(legal_actions(rstate)[1])
    /\ \E i \in 2..Len(legal_actions(rstate)) :
          /\ EndsGame(legal_actions(rstate)[i])
          /\ << legal_actions(rstate)[i][3], legal_actions(rstate)[i][4] >>
                \in SideCenters
          /\ \A j \in 1..Len(legal_actions(rstate)) :
                j # i => ~ EndsGame(legal_actions(rstate)[j])

(***************************************************************************)
(* traverse_nodes called directly on a fully expanded root built by hand:  *)
(* one child per legal action, each visited once, with wins a caller may   *)
(* have stored in the node.  Wins far above the visits put the flipped     *)
(* score of a child below the sentinel.                                    *)
(***************************************************************************)
WinsInputs == { 0, 1, 20000 }

TraverseInputTree(s, w) ==
    LET acts == legal_actions(s)
        k    == Len(acts)
    IN  << [ MCTSNode(NoNode, None, << >>) EXCEPT
                 !.child_nodes = [ i \in 1..k |-> << acts[k + 1 - i], i + 1 >> ],
                 !.visits = k ] >>
        \o [ i \in 1..k |->
                [ MCTSNode(Root, acts[k + 1 - i],
                           legal_actions(next_state(s, acts[k + 1 - i])))
                    EXCEPT !.visits = 1, !.wins = w[i] ] ]

InitTraverse ==
    /\ policy = "vanilla"
    /\ current_state \in { b \in StartStates : Len(legal_actions(b)) >= 2 }
    /\ num_nodes = 0
    /\ bot_identity = current_player(current_state)
    /\ \E w \in [ 1..Len(legal_actions(current_state)) -> WinsInputs ] :
          tree = TraverseInputTree(current_state, w)
    /\ iterations = 0
    /\ node = Root
    /\ state = current_state
    /\ currentBestUcb = UcbSentinel
    /\ bestChild = NoNode
    /\ scan = 1
    /\ lastUcb = NoUcb
    /\ rstate = current_state
    /\ rcurrent_player = bot_identity
    /\ ropponent = bot_identity
    /\ rolloutState = current_state
    /\ won = FALSE
    /\ bp = NoNode
    /\ bestAction = None
    /\ bestWinRate = WinRateSentinel
    /\ best_action = None
    /\ pc = "trav_while"
    /\ fault = "none"
    /\ ended = << >>
    /\ ret = [ called |-> FALSE, arg_node |-> NoNode, arg_state |-> current_state,
               before |-> tree, node |-> NoNode, state |-> current_state ]

NextTraverse == TraverseWhile \/ TraverseFor \/ TraverseMove

SpecTraverse == InitTraverse /\ [][NextTraverse]_vars

InSimulation ==
    pc \in { "rollout", "rollout_while", "is_win", "backprop", "backprop_wins" }

\* C17: the node think simulates and backpropagates from is never absent:
\* expand_leaf is called only on a node with untried actions; a selected
\* node without any (its state has no legal action) is kept with its state,
\* no node is created, and exactly one backpropagation starts from it.
C17_NodeNeverAbsent ==
    [][ /\ pc = "think_if" =>
              IF tree[node].untried_actions # << >>
              THEN node' = Len(tree) + 1 /\ Len(tree') = Len(tree) + 1
              ELSE /\ legal_actions(state) = << >>
                   /\ node' = node
                   /\ state' = state
                   /\ tree' = tree
        /\ InSimulation' => node' # NoNode
        /\ pc = "is_win" =>
              /\ bp' = node
              /\ Len(ended') = iterations
              /\ ended'[Len(ended')].node = node
        /\ pc # "is_win" => ended' = ended ]_vars

\* a backpropagation starts from a node below the root that has no legal
\* action and was visited before
C17_Witness ==
    /\ pc = "backprop"
    /\ bp = node
    /\ node # Root
    /\ legal_actions(state) = << >>
    /\ tree[node].visits >= 1
    /\ Len(tree) < 1 + iterations

\* C18: with points_values defined exactly on the ended states, the
\* assertion of is_win never fails: is_win only gets the state rollout
\* returned, which has ended, also when the selected node's state has ended
\* already and rollout returns it as it is.
C18_IsWinOnEndedState ==
    [][ /\ fault' # "AssertionError"
        /\ pc' = "is_win" =>
              /\ is_ended(rolloutState')
              /\ points_values(rolloutState') # None
              /\ is_ended(state') => rolloutState' = state'
        /\ pc = "is_win" => won' = (points_values(rolloutState)[bot_identity] = 1)
      ]_vars

\* is_win is about to get the state of a selected node that had ended
C18_Witness ==
    /\ pc = "is_win"
    /\ node # Root
    /\ is_ended(state)
    /\ rolloutState = state
    /\ tree[node].visits >= 1

\* the nodes stored as children of n
ChildrenOf(n) == { tree[n].child_nodes[i][2] : i \in 1..Len(tree[n].child_nodes) }

\* C19: for every node, the keys of child_nodes and the untried actions
\* are disjoint and together are the legal actions of the node's state; a
\* child stored under an action has the node as parent and the action as
\* parent_action; no node is a child of two parents; the root has neither
\* parent nor parent_action.
C19_TreeShape ==
    /\ tree[Root].parent = NoNode
    /\ tree[Root].parent_action = None
    /\ \A n \in Nodes :
          /\ Keys(tree[n].child_nodes) \cap Range(tree[n].untried_actions) = { }
          /\ Keys(tree[n].child_nodes) \cup Range(tree[n].untried_actions)
                = Range(legal_actions(StateOf(tree, n)))
          /\ Cardinality(Keys(tree[n].child_nodes)) = Len(tree[n].child_nodes)
          /\ Cardinality(Range(tree[n].untried_actions))
                = Len(tree[n].untried_actions)
          /\ \A i \in 1..Len(tree[n].child_nodes) :
                LET c == tree[n].child_nodes[i][2]
                IN  /\ c \in Nodes
                    /\ c # Root
                    /\ tree[c].parent = n
                    /\ tree[c].parent_action = tree[n].child_nodes[i][1]
          /\ n # Root => (tree[n].parent \in Nodes
                            /\ n \in ChildrenOf(tree[n].parent))
    /\ \A n, m \in Nodes : n # m => ChildrenOf(n) \cap ChildrenOf(m) = { }

\* the tree has a node two levels below the root, under a parent that has
\* both a child and an untried action
C19_Witness ==
    \E n \in Nodes :
        /\ n # Root
        /\ tree[n].parent # Root
        /\ tree[tree[n].parent].untried_actions # << >>
        /\ tree[Root].untried_actions = << >>
        /\ Len(tree[Root].child_nodes) >= 3

\* C20: between iterations the root's visits are the number of completed
\* iterations, every node below the root whose state has a legal action
\* has visits = 1 + the visits of its children, and the tree has at most
\* 1 + that many nodes; an iteration adds exactly one node when the node it
\* selected has an untried action and none otherwise.
C20_VisitsConserved ==
    [][ /\ pc = "for" =>
              /\ tree[Root].visits = iterations
              /\ Len(tree) <= 1 + iterations
              /\ \A n \in Nodes :
                    (n # Root /\ legal_actions(StateOf(tree, n)) # << >>) =>
                        tree[n].visits = 1 + SumVisits(tree[n].child_nodes, 1)
        /\ pc = "think_if" =>
              Len(tree') = Len(tree)
                  + (IF tree[node].untried_actions # << >> THEN 1 ELSE 0)
        /\ pc # "think_if" => Len(tree') = Len(tree) ]_vars

\* several iterations are over, one of them added no node, and a node
\* below the root has been passed through on the way to its children
C20_Witness ==
    /\ pc = "for"
    /\ iterations >= 5
    /\ Len(tree) < 1 + iterations
    /\ \E n \in Nodes :
          /\ n # Root
          /\ Len(tree[n].child_nodes) >= 1
          /\ tree[n].visits >= 3

====
